---- MODULE Spec2Model ----
(***************************************************************************)
(* Model of Ollama_streamlit.py: the Streamlit chat script.                *)
(*                                                                         *)
(* Two specifications share the module:                                    *)
(*   Spec         the chat session: user turns, the stream_chat generator  *)
(*                driven line by line by the caller's for loop, the commit *)
(*                of the assistant message and the Clear chat button;      *)
(*   SpecCatalog  the model catalog: list_models behind st.cache_data      *)
(*                (ttl = 120), the clock and the Refresh models button.    *)
(*                                                                         *)
(* Text is a sequence of one-character strings, so that joining and        *)
(* stripping are computed and not assumed.                                 *)
(***************************************************************************)
EXTENDS Integers, Sequences, FiniteSets, TLC

----------------------------------------------------------------------------
(* Bounds *)

\* most response lines the service sends on one chat stream
MaxLines == 3
\* most user messages in one conversation (Clear chat starts over)
MaxTurns == 2

----------------------------------------------------------------------------
(* Text *)

NoText == << >>
\* characters str.strip() removes
Whitespace == {" ", "\n", "\t"}

RECURSIVE lstrip(_)
lstrip(s) ==
  IF s = << >> THEN << >>
  ELSE IF Head(s) \in Whitespace THEN lstrip(Tail(s)) ELSE s

RECURSIVE rstrip(_)
rstrip(s) ==
  IF s = << >> THEN << >>
  ELSE IF s[Len(s)] \in Whitespace THEN rstrip(SubSeq(s, 1, Len(s) - 1)) ELSE s

\* str.strip()
strip(s) == rstrip(lstrip(s))

\* "".join(parts)
RECURSIVE join(_)
join(parts) ==
  IF parts = << >> THEN << >> ELSE Head(parts) \o join(Tail(parts))

----------------------------------------------------------------------------
(* Conversation *)

SystemPrompt == <<"S">>
SystemMessage == [role |-> "system", content |-> SystemPrompt]
InitialMessages == << SystemMessage >>

\* what the operator may type into st.chat_input (non-empty: an empty
\* prompt is falsy and skips the block)
Prompts == { <<"q">> }

----------------------------------------------------------------------------
(* Response lines of POST /api/chat *)

\* A JSON value as json.loads returns it.  t is the Python type; for a dict
\* the members the code looks at are spelled out.
JObject(hasError, error, message, content, done) ==
  [t |-> "dict", hasError |-> hasError, error |-> error,
   message |-> message, content |-> content, done |-> done]
JString == [t |-> "str", hasError |-> FALSE, error |-> NoText,
            message |-> "absent", content |-> NoText, done |-> "absent"]

\* message: "absent" | "null" | "nocontent" | "content"
\* done:    "absent" | "false" | "true"
\* A line as iter_lines delivers it.  kind:
\*   "blank"     the empty line
\*   "garbage"   text that is not JSON
\*   "badbytes"  bytes that are not valid UTF-8: without a charset in the
\*               response's Content-Type iter_lines(decode_unicode=True)
\*               delivers the undecoded bytes of the line
\*   "json"      the text of the JSON value val
RawBlank    == [kind |-> "blank",    val |-> JString]
RawGarbage  == [kind |-> "garbage",  val |-> JString]
RawBadBytes == [kind |-> "badbytes", val |-> JString]
RawJson(v)  == [kind |-> "json",     val |-> v]

LineBlank     == RawBlank
LineGarbage   == RawGarbage
LineBadBytes  == RawBadBytes
LineJsonStr   == RawJson(JString)
LineEmptyObj  == RawJson(JObject(FALSE, NoText, "absent", NoText, "absent"))
LineMsgA      == RawJson(JObject(FALSE, NoText, "content", <<"a">>, "false"))
LineMsgSpace  == RawJson(JObject(FALSE, NoText, "content", <<" ">>, "absent"))
LineMsgEmpty  == RawJson(JObject(FALSE, NoText, "content", NoText, "false"))
LineMsgNull   == RawJson(JObject(FALSE, NoText, "null", NoText, "absent"))
LineDone      == RawJson(JObject(FALSE, NoText, "absent", NoText, "true"))
LineMsgDone   == RawJson(JObject(FALSE, NoText, "content", <<"a">>, "true"))
LineError     == RawJson(JObject(TRUE, <<"r">>, "absent", NoText, "absent"))
LineErrorMsg  == RawJson(JObject(TRUE, <<"r">>, "content", <<"a">>, "absent"))

LineSet ==
  { LineBlank, LineGarbage, LineBadBytes, LineJsonStr, LineEmptyObj, LineMsgA, LineMsgSpace,
    LineMsgEmpty, LineMsgNull, LineDone, LineMsgDone, LineError, LineErrorMsg }


\* what one read of r.iter_lines() can deliver besides a line: the end of
\* the body, or a transport failure raised out of the read
NetEOF  == [kind |-> "eof",  val |-> JString]
NetDrop == [kind |-> "drop", val |-> JString]
ReadEvents == LineSet \cup {NetEOF, NetDrop}

\* outcome of the POST itself
PostOutcomes == {"ok", "bad", "neterror"}

----------------------------------------------------------------------------
(* Failures *)

NoFailure == [type |-> "none", text |-> NoText]
Failure(type, text) == [type |-> type, text |-> text]

----------------------------------------------------------------------------
(* State *)

VARIABLES
  messages,   \* st.session_state.messages
  pc,         \* where the script run is
  gen,        \* where the stream_chat generator frame is
  conn,       \* the response of requests.post: "none", "open", "closed"
  status,     \* its HTTP status: "none", "ok", "bad"
  payload,    \* the messages serialised into the request body
  lines,      \* the lines iter_lines has delivered to this generator
  yielded,    \* the chunks the generator has yielded, in order
  chunk,      \* the loop variable of the caller's for
  acc,        \* the caller's list of chunks
  failure,    \* the exception that left the generator
  posts,      \* POST /api/chat requests issued in this run
  outcome,    \* how the last finished turn ended: "none" after a reset,
              \* "committed", "failed" (the except branch) or "stopped"
  cache,      \* st.cache_data entries of list_models, by (base_url, api_key)
  now,        \* the cache's clock, in seconds
  call,       \* the sidebar's last step: the list_models call or the clear
  netCalls,   \* GET /api/tags requests issued so far
  since       \* per key: time and result of the last GET, if no clear since

chatVars ==
  <<messages, pc, gen, conn, status, payload, lines, yielded, chunk, acc, failure,
    posts, outcome>>
catalogVars == <<cache, now, call, netCalls, since>>
vars == <<chatVars, catalogVars>>

----------------------------------------------------------------------------
(* stream_chat: one line of the for loop *)

\* json.loads(line): the value, or the exception it raises.  Text that is
\* not JSON raises JSONDecodeError; bytes that are not UTF-8 raise
\* UnicodeDecodeError, which is a ValueError but no JSONDecodeError.
json_loads(line) ==
  IF line.kind = "json" THEN [ok |-> TRUE, exc |-> "none", val |-> line.val]
  ELSE IF line.kind = "badbytes"
    THEN [ok |-> FALSE, exc |-> "UnicodeDecodeError", val |-> JString]
  ELSE [ok |-> FALSE, exc |-> "JSONDecodeError", val |-> JString]

\* lines 61-65: what the try statement does with a line json.loads rejects
DecodeError(exc) ==
  IF exc = "JSONDecodeError"
    THEN [act |-> "skip", chunk |-> NoText, exc |-> NoFailure]
    ELSE [act |-> "raise", chunk |-> NoText, exc |-> Failure(exc, NoText)]

\* "error" in obj
HasErrorKey(obj) == obj.t = "dict" /\ obj.hasError

\* obj.get("message", {}).get("content", ""), where it does not raise
ChunkOf(obj) == IF obj.message = "content" THEN obj.content ELSE NoText

\* obj.get("done")
IsDone(obj) == obj.done = "true"

\* LineStep, but empty content is yielded too (the test of line 71 dropped)
LineStep_YieldEmpty(line) ==
  IF line.kind = "blank" THEN [act |-> "skip", chunk |-> NoText, exc |-> NoFailure]
  ELSE IF ~json_loads(line).ok THEN DecodeError(json_loads(line).exc)
  ELSE LET obj == json_loads(line).val IN
    IF HasErrorKey(obj)
      THEN [act |-> "raise", chunk |-> NoText, exc |-> Failure("RuntimeError", obj.error)]
    ELSE IF obj.t # "dict" \/ obj.message = "null"
      THEN [act |-> "raise", chunk |-> NoText, exc |-> Failure("AttributeError", NoText)]
    ELSE IF obj.message = "content"
      THEN [act |-> "yield", chunk |-> ChunkOf(obj), exc |-> NoFailure]
    ELSE [act |-> "tail", chunk |-> NoText, exc |-> NoFailure]

\* LineStep, but the error test of lines 66-67 comes after the yield, so an
\* error line that carries content yields it and the error is lost
LineStep_ErrorAfterYield(line) ==
  IF line.kind = "blank" THEN [act |-> "skip", chunk |-> NoText, exc |-> NoFailure]
  ELSE IF ~json_loads(line).ok THEN DecodeError(json_loads(line).exc)
  ELSE LET obj == json_loads(line).val IN
    IF obj.t # "dict" \/ obj.message = "null"
      THEN [act |-> "raise", chunk |-> NoText, exc |-> Failure("AttributeError", NoText)]
    ELSE IF ChunkOf(obj) # NoText
      THEN [act |-> "yield", chunk |-> ChunkOf(obj), exc |-> NoFailure]
    ELSE IF HasErrorKey(obj)
      THEN [act |-> "raise", chunk |-> NoText, exc |-> Failure("RuntimeError", obj.error)]
    ELSE [act |-> "tail", chunk |-> NoText, exc |-> NoFailure]

\* LineStep, but the done test of lines 73-74 comes before the yield, so
\* the content of the line that carries the done marker is dropped
LineStep_DoneFirst(line) ==
  IF line.kind = "blank" THEN [act |-> "skip", chunk |-> NoText, exc |-> NoFailure]
  ELSE IF ~json_loads(line).ok THEN DecodeError(json_loads(line).exc)
  ELSE LET obj == json_loads(line).val IN
    IF HasErrorKey(obj)
      THEN [act |-> "raise", chunk |-> NoText, exc |-> Failure("RuntimeError", obj.error)]
    ELSE IF obj.t # "dict"
      THEN [act |-> "raise", chunk |-> NoText, exc |-> Failure("AttributeError", NoText)]
    ELSE IF IsDone(obj)
      THEN [act |-> "tail", chunk |-> NoText, exc |-> NoFailure]
    ELSE IF obj.message = "null"
      THEN [act |-> "raise", chunk |-> NoText, exc |-> Failure("AttributeError", NoText)]
    ELSE IF ChunkOf(obj) # NoText
      THEN [act |-> "yield", chunk |-> ChunkOf(obj), exc |-> NoFailure]
    ELSE [act |-> "tail", chunk |-> NoText, exc |-> NoFailure]

\* Lines 59-72 on one delivered line, up to the yield:
\*   "skip"   continue with the next line
\*   "raise"  an exception leaves the generator
\*   "yield"  chunk is handed to the caller, the frame suspends at line 72
\*   "tail"   nothing to yield, go on to the done test of line 73
LineStep(line) ==
  IF line.kind = "blank" THEN [act |-> "skip", chunk |-> NoText, exc |-> NoFailure]
  ELSE IF ~json_loads(line).ok THEN DecodeError(json_loads(line).exc)
  ELSE LET obj == json_loads(line).val IN
    IF HasErrorKey(obj)
      THEN [act |-> "raise", chunk |-> NoText, exc |-> Failure("RuntimeError", obj.error)]
    ELSE IF obj.t # "dict"
      THEN [act |-> "raise", chunk |-> NoText, exc |-> Failure("AttributeError", NoText)]
    ELSE IF obj.message = "null"
      THEN [act |-> "raise", chunk |-> NoText, exc |-> Failure("AttributeError", NoText)]
    ELSE IF ChunkOf(obj) # NoText
      THEN [act |-> "yield", chunk |-> ChunkOf(obj), exc |-> NoFailure]
    ELSE [act |-> "tail", chunk |-> NoText, exc |-> NoFailure]

\* DoneBreaks, but the done marker is ignored
DoneBreaks_Never(line) == FALSE

\* Lines 73-74 on the line just handled: break, or back to the loop head
DoneBreaks(line) == IsDone(json_loads(line).val)

\* raise_for_status, but the status is never checked
raise_for_status_Skipped(st) == FALSE

\* line 57: r.raise_for_status() raises on a status that is not a success
\* ("bad" stands for the 4xx and 5xx statuses, "ok" for the others)
raise_for_status(st) == st # "ok"

\* ExitWith, but the response is used without the with block: never closed
ExitWith_NoClose(c) == c

\* Response.__exit__ of the with block (line 50): close the connection
ExitWith(c) == IF c = "open" THEN "closed" ELSE c


----------------------------------------------------------------------------
(* The caller: lines 113-132 *)

UserMessage(p) == [role |-> "user", content |-> p]
AssistantMessage(text) == [role |-> "assistant", content |-> text]

NumUser(msgs) == Cardinality({i \in 1..Len(msgs) : msgs[i].role = "user"})

\* Accumulate, but the chunk is put in front
Accumulate_Front(a, c) == <<c>> \o a

\* RequestMessages, but only the new prompt is sent
RequestMessages_LastOnly(msgs) == << msgs[Len(msgs)] >>

\* lines 44-49 and 53: the "messages" member of the request body is the
\* whole list handed to stream_chat, serialised when the POST is made
RequestMessages(msgs) == msgs

\* ClearedMessages, but the reset leaves the list empty
ClearedMessages_Empty == << >>

\* line 138: what Clear chat stores
ClearedMessages == << SystemMessage >>

\* line 126: acc.append(chunk)
Accumulate(a, c) == Append(a, c)

\* line 131: "".join(acc).strip()
AssistantText(a) == strip(join(a))

\* OnSuccess, but an empty reply is not recorded
OnSuccess_SkipEmpty(msgs, a) ==
  IF AssistantText(a) = NoText THEN msgs
  ELSE Append(msgs, AssistantMessage(AssistantText(a)))

\* OnSuccess, but the reply takes the place of the last entry
OnSuccess_ReplaceLast(msgs, a) ==
  [msgs EXCEPT ![Len(msgs)] = AssistantMessage(AssistantText(a))]

\* lines 130-132, the else branch of the try: commit the assistant turn
OnSuccess(msgs, a) == Append(msgs, AssistantMessage(AssistantText(a)))

\* OnFailure, but the turn's user message is taken back
OnFailure_Rollback(msgs, a) == SubSeq(msgs, 1, Len(msgs) - 1)

\* OnFailure, but the partial text is committed (finally instead of else)
OnFailure_Commit(msgs, a) == Append(msgs, AssistantMessage(AssistantText(a)))

\* lines 128-129, the except branch: st.error only, nothing is appended
OnFailure(msgs, a) == msgs

----------------------------------------------------------------------------
(* Chat actions *)

\* lines 113-125: a prompt arrives; the user message is appended, acc is
\* emptied and stream_chat(...) creates the generator (no body code runs yet)
Submit(p) ==
  /\ pc = "idle"
  /\ NumUser(messages) < MaxTurns
  /\ messages' = Append(messages, UserMessage(p))
  /\ acc' = << >>
  /\ gen' = "created"
  /\ pc' = "next"
  /\ UNCHANGED <<conn, status, payload, lines, yielded, chunk, failure, posts, outcome, catalogVars>>

\* lines 44-57: the first next() builds the payload from the messages list,
\* issues the POST and checks the status
Post(o) ==
  /\ pc = "next"
  /\ gen = "created"
  /\ payload' = RequestMessages(messages)
  /\ posts' = posts + 1
  /\ IF o = "neterror"
       THEN /\ gen' = "raised"
            /\ failure' = Failure("ConnectionError", NoText)
            /\ pc' = "except"
            /\ UNCHANGED <<conn, status>>
       ELSE /\ status' = o
            /\ IF raise_for_status(o)
                 THEN /\ conn' = ExitWith("open")
                      /\ gen' = "raised"
                      /\ failure' = Failure("HTTPError", NoText)
                      /\ pc' = "except"
                 ELSE /\ conn' = "open"
                      /\ gen' = "reading"
                      /\ UNCHANGED <<failure, pc>>
  /\ UNCHANGED <<messages, lines, yielded, chunk, acc, outcome, catalogVars>>

\* GenReturn, but the exhausted generator is set up again, so that the for
\* loop's next() starts stream_chat over with another request
GenReturn_Restart ==
  /\ conn' = ExitWith(conn)
  /\ gen' = "created"
  /\ pc' = "next"
  /\ UNCHANGED <<yielded, chunk, failure>>

\* the generator returns: the with block is left, StopIteration ends the for
GenReturn ==
  /\ conn' = ExitWith(conn)
  /\ gen' = "returned"
  /\ pc' = "else"
  /\ UNCHANGED <<yielded, chunk, failure>>

\* an exception leaves the generator through the with block
GenRaise(exc) ==
  /\ conn' = ExitWith(conn)
  /\ gen' = "raised"
  /\ failure' = exc
  /\ pc' = "except"
  /\ UNCHANGED <<yielded, chunk>>

\* lines 58-74: next() runs the generator over one read of iter_lines
Read(ev) ==
  /\ pc = "next"
  /\ gen = "reading"
  /\ CASE ev = NetEOF -> GenReturn /\ UNCHANGED lines
       [] ev = NetDrop ->
            GenRaise(Failure("ChunkedEncodingError", NoText)) /\ UNCHANGED lines
       [] OTHER ->
            /\ Len(lines) < MaxLines
            /\ lines' = Append(lines, ev)
            /\ LET st == LineStep(ev) IN
               CASE st.act = "skip" ->
                      UNCHANGED <<conn, gen, pc, yielded, chunk, failure>>
                 [] st.act = "raise" -> GenRaise(st.exc)
                 [] st.act = "yield" ->
                      /\ yielded' = Append(yielded, st.chunk)
                      /\ chunk' = st.chunk
                      /\ gen' = "suspended"
                      /\ pc' = "body"
                      /\ UNCHANGED <<conn, failure>>
                 [] st.act = "tail" ->
                      IF DoneBreaks(ev) THEN GenReturn
                      ELSE UNCHANGED <<conn, gen, pc, yielded, chunk, failure>>
  /\ UNCHANGED <<messages, status, payload, acc, posts, outcome, catalogVars>>

\* line 126: the loop body takes the chunk
Body ==
  /\ pc = "body"
  /\ acc' = Accumulate(acc, chunk)
  /\ pc' = "markdown"
  /\ UNCHANGED <<messages, gen, conn, status, payload, lines, yielded, chunk, failure, posts, outcome, catalogVars>>

\* line 127 returns and the for loop calls next(): the frame resumes after
\* the yield with the done test of lines 73-74
Resume ==
  /\ pc = "markdown"
  /\ gen = "suspended"
  /\ IF DoneBreaks(lines[Len(lines)]) THEN GenReturn
     ELSE /\ gen' = "reading"
          /\ pc' = "next"
          /\ UNCHANGED <<conn, yielded, chunk, failure>>
  /\ UNCHANGED <<messages, status, payload, lines, acc, posts, outcome, catalogVars>>

\* line 127 does not return: the operator touched a widget and Streamlit
\* stops the run inside placeholder.markdown.  The for loop is abandoned, the
\* suspended frame is finalised (GeneratorExit at line 72) and leaves the with
Abandon ==
  /\ pc = "markdown"
  /\ gen = "suspended"
  /\ conn' = ExitWith(conn)
  /\ gen' = "closed"
  /\ pc' = "stopped"
  /\ outcome' = "stopped"
  /\ UNCHANGED <<messages, status, payload, lines, yielded, chunk, acc, failure, posts, catalogVars>>

\* lines 130-132
Commit ==
  /\ pc = "else"
  /\ messages' = OnSuccess(messages, acc)
  /\ pc' = "rendered"
  /\ outcome' = "committed"
  /\ UNCHANGED <<gen, conn, status, payload, lines, yielded, chunk, acc, failure, posts, catalogVars>>

\* Except, but the handler raises again: the run dies in the except branch
Except_Reraise ==
  /\ pc = "except"
  /\ pc' = "crashed"
  /\ UNCHANGED <<messages, gen, conn, status, payload, lines, yielded, chunk, acc, failure,
                 posts, outcome, catalogVars>>

\* lines 128-129
Except ==
  /\ pc = "except"
  /\ messages' = OnFailure(messages, acc)
  /\ pc' = "rendered"
  /\ outcome' = "failed"
  /\ UNCHANGED <<gen, conn, status, payload, lines, yielded, chunk, acc, failure, posts, catalogVars>>

\* lines 134-141 and the end of the script run: the run's names are dropped
EndRun ==
  /\ pc \in {"rendered", "stopped"}
  /\ pc' = "idle"
  /\ gen' = "none"
  /\ conn' = "none"
  /\ status' = "none"
  /\ payload' = << >>
  /\ lines' = << >>
  /\ yielded' = << >>
  /\ chunk' = NoText
  /\ acc' = << >>
  /\ failure' = NoFailure
  /\ posts' = 0
  /\ UNCHANGED <<messages, outcome, catalogVars>>

\* lines 137-139: Clear chat
ClearChat ==
  /\ pc = "idle"
  /\ messages' = ClearedMessages
  /\ outcome' = "none"
  /\ UNCHANGED <<pc, gen, conn, status, payload, lines, yielded, chunk, acc, failure, posts, catalogVars>>


----------------------------------------------------------------------------
(* Model catalog: list_models behind st.cache_data(ttl=120) *)

\* ttl of the st.cache_data decorator, in seconds
TTL == 120
\* most GET /api/tags requests in one behaviour
MaxFetches == 3
\* the clock stops here
MaxTime == 240
\* the clock advances by half a window or by just under a window
TickSteps == {TTL \div 2, TTL - 1}

\* the arguments of list_models: the sidebar's base_url and api_key
Keys == {<<"local", "">>, <<"cloud", "">>, <<"cloud", "k">>}

DefaultModels == <<"llama3.1", "llama3", "qwen2.5", "phi4">>

\* Responses of GET /api/tags.  net: the request got a response at all;
\* status: 2xx or not; body: what resp.json() finds.
\*   body.kind "garbage"  not JSON
\*             "list"     JSON, but not an object
\*             "dict"     an object; hasModels: it has a "models" member;
\*                        models: that member, a list of records that have
\*                        a "name" member or not
Rec(name) == [hasName |-> TRUE, name |-> name]
RecNoName == [hasName |-> FALSE, name |-> ""]
TagsBody(kind, hasModels, models) ==
  [kind |-> kind, hasModels |-> hasModels, models |-> models]
Response(net, code, body) == [net |-> net, status |-> code, body |-> body]

RespTwo      == Response(TRUE, "ok", TagsBody("dict", TRUE, <<Rec("m2"), Rec("m1")>>))
RespNone     == Response(TRUE, "ok", TagsBody("dict", TRUE, << >>))
RespNetError == Response(FALSE, "ok", TagsBody("garbage", FALSE, << >>))
RespStatus   == Response(TRUE, "bad", TagsBody("dict", TRUE, <<Rec("m1")>>))
RespGarbage  == Response(TRUE, "ok", TagsBody("garbage", FALSE, << >>))
RespList     == Response(TRUE, "ok", TagsBody("list", FALSE, << >>))
RespNoModels == Response(TRUE, "ok", TagsBody("dict", FALSE, << >>))
RespNoName   == Response(TRUE, "ok", TagsBody("dict", TRUE, <<Rec("m1"), RecNoName>>))
NoResponse   == Response(FALSE, "none", TagsBody("garbage", FALSE, << >>))

Responses ==
  { RespTwo, RespNone, RespNetError, RespStatus, RespGarbage, RespList,
    RespNoModels, RespNoName }

\* line 33: [m["name"] for m in ...], where every record has a name
Names(models) == [i \in 1..Len(models) |-> models[i].name]

Returned(v) == [raised |-> FALSE, value |-> v]
Raised == [raised |-> TRUE, value |-> << >>]

\* lines 29-33, the try block: the list, or an exception
TryFetch(resp) ==
  IF ~resp.net THEN Raised
  ELSE IF resp.status # "ok" THEN Raised
  ELSE IF resp.body.kind = "garbage" THEN Raised
  ELSE IF resp.body.kind # "dict" THEN Raised
  ELSE LET ms == IF resp.body.hasModels THEN resp.body.models ELSE << >> IN
       IF \E i \in 1..Len(ms) : ~ms[i].hasName THEN Raised
       ELSE Returned(Names(ms))

\* OnFetchError, but the failure yields an empty list
OnFetchError_Empty(r) == Returned(<< >>)

\* OnFetchError, but the exception leaves list_models, so that st.cache_data
\* stores nothing for the call
OnFetchError_Raise(r) == Raised

\* lines 34-37, the except clause: warn and return the defaults
OnFetchError(r) == Returned(DefaultModels)

\* lines 28-37: the body of list_models on one response
list_models(resp) ==
  IF TryFetch(resp).raised THEN OnFetchError(TryFetch(resp)) ELSE TryFetch(resp)

\* CacheKey, but the credential is left out of the key
CacheKey_UrlOnly(base_url, api_key) == <<base_url, "">>

\* the key st.cache_data hashes the call's arguments into
CacheKey(base_url, api_key) == <<base_url, api_key>>

NoEntry == [valid |-> FALSE, value |-> << >>, at |-> 0]
Entry(v, t) == [valid |-> TRUE, value |-> v, at |-> t]

\* line 22: an entry is served while it is younger than ttl
Fresh(e, t) == e.valid /\ t < e.at + TTL

NoCall == [op |-> "none", key |-> <<"local", "">>, at |-> 0, fetched |-> FALSE,
           resp |-> NoResponse, raised |-> FALSE, ret |-> << >>]

\* line 92: the sidebar calls list_models(base_url, api_key).  After a
\* Refresh the run is the rerun of line 97, with the same widget values.
ListModels(base_url, api_key, resp) ==
  LET k == CacheKey(base_url, api_key)
      r == list_models(resp) IN
  /\ call.op = "clear" => call.key = <<base_url, api_key>>
  /\ IF Fresh(cache[k], now)
       THEN /\ resp = NoResponse
            /\ call' = [op |-> "call", key |-> <<base_url, api_key>>, at |-> now,
                        fetched |-> FALSE, resp |-> NoResponse, raised |-> FALSE,
                        ret |-> cache[k].value]
            /\ UNCHANGED <<cache, netCalls, since>>
       ELSE /\ resp \in Responses
            /\ netCalls < MaxFetches
            /\ netCalls' = netCalls + 1
            /\ call' = [op |-> "call", key |-> <<base_url, api_key>>, at |-> now,
                        fetched |-> TRUE, resp |-> resp, raised |-> r.raised,
                        ret |-> r.value]
            /\ cache' = IF r.raised THEN cache
                        ELSE [cache EXCEPT ![k] = Entry(r.value, now)]
            /\ since' = [since EXCEPT ![<<base_url, api_key>>] = Entry(r.value, now)]
  /\ UNCHANGED <<now, chatVars>>

\* lines 95-97: Refresh models, in the run whose sidebar has just called
\* list_models: st.cache_data.clear() empties every cache, st.rerun() follows
Refresh ==
  /\ call.op = "call"
  /\ cache' = [k \in DOMAIN cache |-> NoEntry]
  /\ call' = [call EXCEPT !.op = "clear"]
  /\ since' = [k \in Keys |-> NoEntry]
  /\ UNCHANGED <<now, netCalls, chatVars>>

\* time passes
Tick(d) ==
  /\ now + d <= MaxTime
  /\ now' = now + d
  /\ UNCHANGED <<cache, call, netCalls, since, chatVars>>

----------------------------------------------------------------------------
(* Specifications *)

Init ==
  /\ messages = InitialMessages
  /\ pc = "idle"
  /\ gen = "none"
  /\ conn = "none"
  /\ status = "none"
  /\ payload = << >>
  /\ lines = << >>
  /\ yielded = << >>
  /\ chunk = NoText
  /\ acc = << >>
  /\ failure = NoFailure
  /\ posts = 0
  /\ outcome = "none"
  /\ cache = [k \in {CacheKey(k[1], k[2]) : k \in Keys} |-> NoEntry]
  /\ now = 0
  /\ call = NoCall
  /\ netCalls = 0
  /\ since = [k \in Keys |-> NoEntry]

Next ==
  \/ \E p \in Prompts : Submit(p)
  \/ \E o \in PostOutcomes : Post(o)
  \/ \E ev \in ReadEvents : Read(ev)
  \/ Body
  \/ Resume
  \/ Abandon
  \/ Commit
  \/ Except
  \/ EndRun
  \/ ClearChat

Spec == Init /\ [][Next]_vars

\* The script run is one thread: every statement runs when the one before
\* it has returned, the POST and each read of the body return or raise
\* within the timeout of line 55, and the for loop of line 125 calls next()
\* again as soon as its body returns.  So a step of the run that stays
\* possible is taken.
Drive ==
  \/ \E o \in PostOutcomes : Post(o)
  \/ \E ev \in ReadEvents : Read(ev)
  \/ Body
  \/ Resume
  \/ Commit
  \/ Except
  \/ EndRun

SpecLive == Spec /\ WF_vars(Drive)

NextCatalog ==
  \/ \E k \in Keys : \E resp \in Responses \cup {NoResponse} :
        ListModels(k[1], k[2], resp)
  \/ Refresh
  \/ \E d \in TickSteps : Tick(d)

SpecCatalog == Init /\ [][NextCatalog]_vars


----------------------------------------------------------------------------
(* Properties of the chat stream *)

Last(q) == q[Len(q)]

\* the run's stream has ended and the caller has left the try statement
TurnOver == pc \in {"rendered", "stopped"}

\* what the claims call the lines of the stream
IsBlankLine(l)      == l.kind = "blank"
IsUnparsableLine(l) == l.kind \in {"garbage", "badbytes"}
IsObjectLine(l)     == l.kind = "json" /\ l.val.t = "dict"
IsErrorLine(l)      == IsObjectLine(l) /\ l.val.hasError
IsDoneLine(l)       == IsObjectLine(l) /\ ~l.val.hasError /\ l.val.message # "null"
                         /\ l.val.done = "true"
\* the message content a line carries; empty when it carries none
ContentOfLine(l) ==
  IF IsObjectLine(l) /\ l.val.message = "content" THEN l.val.content ELSE NoText

\* The fragments a run of lines stands for: one per line that is an object
\* without an error member and with non-empty message content, in line order.
Fragments(ls) ==
  LET idx == {i \in 1..Len(ls) : ~IsErrorLine(ls[i]) /\ ContentOfLine(ls[i]) # NoText}
      nth(n) == CHOOSE i \in idx : Cardinality({j \in idx : j <= i}) = n
  IN [n \in 1..Cardinality(idx) |-> ContentOfLine(ls[nth(n)])]

\* the characters of all parts, in order
Flatten(parts) ==
  LET total(n) == LET f[k \in 0..Len(parts)] ==
                        IF k = 0 THEN 0 ELSE f[k - 1] + Len(parts[k])
                  IN f[n]
      part(c) == CHOOSE k \in 1..Len(parts) : total(k - 1) < c /\ c <= total(k)
  IN [c \in 1..total(Len(parts)) |-> parts[part(c)][c - total(part(c) - 1)]]

\* t is s without its leading and trailing whitespace
IsTrimOf(t, s) ==
  /\ t = << >> \/ (t[1] \notin Whitespace /\ t[Len(t)] \notin Whitespace)
  /\ \E a \in 0..Len(s) :
       /\ a + Len(t) <= Len(s)
       /\ \A i \in 1..Len(t) : s[a + i] = t[i]
       /\ \A i \in 1..Len(s) : (i <= a \/ i > a + Len(t)) => s[i] \in Whitespace

\* C1: when a turn's stream completes without a failure, the caller's acc
\* holds exactly the yielded fragments in yield order, and the assistant
\* message committed at the end of the conversation carries their
\* concatenation trimmed of leading and trailing whitespace.
C1_CommittedTextIsYieldedText ==
  /\ pc = "else" => acc = yielded
  /\ (pc = "rendered" /\ gen = "returned") =>
       /\ acc = yielded
       /\ Last(messages).role = "assistant"
       /\ IsTrimOf(Last(messages).content, Flatten(yielded))
       /\ SubSeq(messages, 1, Len(messages) - 1) = payload

C1_Witness ==
  /\ pc = "rendered"
  /\ gen = "returned"
  /\ yielded = << <<" ">>, <<"a">>, <<" ">> >>
  /\ Last(messages) = AssistantMessage(<<"a">>)

\* C2: the fragments yielded so far are, in line order, exactly the contents
\* of the lines read so far that carry non-empty message content (and no
\* error member): one fragment per such line, none for a line whose content
\* is absent or empty, none made of two lines.
C2_YieldedFollowsLines == yielded = Fragments(lines)

C2_Witness ==
  /\ lines = <<LineMsgA, LineMsgEmpty, LineMsgSpace>>
  /\ yielded = << <<"a">>, <<" ">> >>

\* C3: an error line is the last line ever read: the generator has raised a
\* RuntimeError carrying the error text, nothing was yielded from the error
\* line, and the fragments yielded are those of the lines before it.
C3_ErrorAborts ==
  \A i \in 1..Len(lines) :
    IsErrorLine(lines[i]) =>
      /\ i = Len(lines)
      /\ gen = "raised"
      /\ pc \in {"except", "rendered"}
      /\ failure = Failure("RuntimeError", lines[i].val.error)
      /\ yielded = Fragments(SubSeq(lines, 1, i - 1))
      /\ Len(acc) <= Len(yielded)

C3_Witness ==
  /\ lines = <<LineMsgA, LineErrorMsg>>
  /\ yielded = << <<"a">> >>
  /\ failure.text = <<"r">>
  /\ pc = "rendered"

\* C4: when the stream of a turn has failed (or was abandoned), the
\* conversation is the transcript that was sent, ending with the turn's user
\* message: no assistant message was appended and no part of acc is stored.
C4_FailedTurnCommitsNothing ==
  (gen \in {"raised", "closed"} /\ pc \in {"except", "rendered", "stopped"}) =>
     /\ messages = payload
     /\ Last(messages).role = "user"

C4_Witness ==
  /\ gen = "raised"
  /\ pc = "rendered"
  /\ failure.type = "RuntimeError"
  /\ acc = << <<"a">>, <<" ">> >>

\* C5: a done line is the last line ever read, and the stream ends without a
\* failure: the generator is suspended at the yield of that line's content
\* or has returned (or was closed by the caller), and nothing was yielded
\* beyond the fragments of the lines up to the done line.
C5_DoneStops ==
  \A i \in 1..Len(lines) :
    IsDoneLine(lines[i]) =>
      /\ i = Len(lines)
      /\ gen \in {"suspended", "returned", "closed"}
      /\ gen = "suspended" => ContentOfLine(lines[i]) # NoText
      /\ failure = NoFailure
      /\ yielded = Fragments(SubSeq(lines, 1, i))

C5_Witness ==
  /\ lines = <<LineMsgA, LineDone>>
  /\ Len(lines) < MaxLines
  /\ gen = "returned"
  /\ pc = "rendered"
  /\ Last(messages) = AssistantMessage(<<"a">>)

\* ls without the lines for which skip holds
Without(ls, skip(_)) == SelectSeq(ls, LAMBDA l : ~skip(l))

\* reading a line for which skip holds changes nothing but the read position:
\* the generator stays in its loop, nothing is yielded, nothing is raised and
\* the connection stays open
SkipStep(skip(_)) ==
  (lines' # lines /\ Len(lines') > 0 /\ skip(Last(lines'))) =>
     /\ gen = "reading" /\ gen' = "reading"
     /\ UNCHANGED <<messages, pc, conn, status, payload, yielded, chunk, acc, failure>>

IsSkippedLine(l) == IsBlankLine(l) \/ IsUnparsableLine(l)
IsSkippedText(l) == IsBlankLine(l) \/ l.kind = "garbage"

\* C6: a blank line and a line that fails to parse as JSON are skipped: the
\* read yields nothing, does not end the stream and raises nothing, and the
\* fragments yielded are those of the other lines, in their order.
C6_SkippedLinesAreHarmless ==
  /\ [](yielded = Fragments(Without(lines, IsSkippedLine)))
  /\ [][SkipStep(IsSkippedLine)]_vars

\* What does hold of lines 59-65: a blank line and a text line that is not
\* JSON are skipped in that sense.
TextLinesAreSkipped ==
  /\ [](yielded = Fragments(Without(lines, IsSkippedText)))
  /\ [][SkipStep(IsSkippedText)]_vars

\* C7: when the status of the POST is not a success, the generator has
\* raised the status failure with no line read and no fragment yielded.
C7_BadStatusFailsFirst ==
  status = "bad" =>
    /\ gen = "raised"
    /\ pc \in {"except", "rendered"}
    /\ failure.type = "HTTPError"
    /\ lines = << >>
    /\ yielded = << >>
    /\ acc = << >>

C7_Witness ==
  /\ status = "bad"
  /\ pc = "rendered"
  /\ conn = "closed"

\* C8: the connection is open only while the generator is inside its loop;
\* once the generator has returned, raised or been closed, and whenever the
\* turn is over or no turn is running, no connection is open.
C8_ConnectionReleased ==
  /\ conn = "open" => (gen \in {"reading", "suspended"} /\ pc \in {"next", "body", "markdown"})
  /\ gen \in {"returned", "raised", "closed"} => conn # "open"
  /\ (gen \in {"returned", "closed"} \/ status = "bad") => conn = "closed"

C8_Witness ==
  /\ gen = "closed"
  /\ pc = "stopped"
  /\ conn = "closed"
  /\ Len(lines) < MaxLines


----------------------------------------------------------------------------
(* Properties of the model catalog *)

\* C9: a list_models call made less than TTL after the last GET for the same
\* (base_url, api_key), with no cache clear in between, issues no GET and
\* returns the list that GET produced; every other call (no GET for that
\* identity yet, the window over, or the cache cleared since) issues exactly
\* one new GET.
C9_Step ==
  (call' # call /\ call'.op = "call") =>
    LET k == call'.key
        within == since[k].valid /\ call'.at - since[k].at < TTL
    IN IF within
         THEN ~call'.fetched /\ netCalls' = netCalls /\ call'.ret = since[k].value
         ELSE call'.fetched /\ netCalls' = netCalls + 1
C9_OneFetchPerWindow == [][C9_Step]_vars

C9_Witness ==
  /\ call.op = "call"
  /\ ~call.fetched
  /\ call.key = <<"cloud", "k">>
  /\ call.at - since[call.key].at = TTL - 1
  /\ cache[<<"cloud", "">>].valid
  /\ call.ret # cache[<<"cloud", "">>].value
  /\ netCalls = 2

\* a response that is no list of model records each with a name
MissingModels(resp) ==
  resp.net /\ resp.status = "ok" /\ resp.body.kind = "dict" /\ ~resp.body.hasModels
IsHardFailure(resp) ==
  \/ ~resp.net
  \/ resp.status # "ok"
  \/ resp.body.kind # "dict"
  \/ resp.body.hasModels /\ \E i \in 1..Len(resp.body.models) : ~resp.body.models[i].hasName
IsFetchFailure(resp) == IsHardFailure(resp) \/ MissingModels(resp)
\* the names of the response's records, in order
NamesIn(resp) ==
  IF resp.body.hasModels
    THEN [i \in 1..Len(resp.body.models) |-> resp.body.models[i].name]
    ELSE << >>

\* C10 as stated: every failed fetch, a missing field included, returns the
\* default list, and every call returns the names of a well-formed response
\* or the default list.
C10_Original ==
  /\ (call.op = "call" /\ call.fetched /\ IsFetchFailure(call.resp)) =>
        (~call.raised /\ call.ret = DefaultModels)
  /\ call.op = "call" =>
        \/ call.ret = DefaultModels
        \/ \E r \in Responses : ~IsFetchFailure(r) /\ call.ret = NamesIn(r)

\* C10 amended: list_models never raises; a network error, a non-2xx status,
\* a body that is not a JSON object and a record without a name return the
\* non-empty default list; an object without a models member returns the
\* empty list; any other response returns its names in order.  So every call
\* returns the default list or the names of a response's records.
C10_FailureReturnsDefaults ==
  /\ DefaultModels # << >>
  /\ (call.op = "call" /\ call.fetched) =>
        /\ ~call.raised
        /\ IsHardFailure(call.resp) => call.ret = DefaultModels
        /\ MissingModels(call.resp) => call.ret = << >>
        /\ ~IsHardFailure(call.resp) => call.ret = NamesIn(call.resp)
  /\ call.op = "call" =>
        \/ call.ret = DefaultModels
        \/ \E r \in Responses : ~IsHardFailure(r) /\ call.ret = NamesIn(r)

C10_Witness ==
  /\ call.op = "call"
  /\ call.fetched
  /\ call.resp = RespNoName
  /\ call.ret = DefaultModels


----------------------------------------------------------------------------
(* Properties of the conversation *)

NumSystem(msgs) == Cardinality({i \in 1..Len(msgs) : msgs[i].role = "system"})

\* a step of the Clear chat button: the only step that starts and ends
\* outside a turn
IsResetStep == pc = "idle" /\ pc' = "idle"

\* C11: the conversation is never empty, its first entry is the system
\* message with the default instruction and it holds no other system
\* message; a reset leaves exactly that one message.
C11_ResetStep ==
  (IsResetStep /\ <<messages, outcome>>' # <<messages, outcome>>) =>
     messages' = << [role |-> "system", content |-> SystemPrompt] >>
C11_OneLeadingSystemMessage ==
  /\ [](/\ Len(messages) >= 1
        /\ messages[1] = [role |-> "system", content |-> SystemPrompt]
        /\ NumSystem(messages) = 1)
  /\ [][C11_ResetStep]_vars

C11_Witness ==
  /\ pc = "idle"
  /\ outcome = "failed"
  /\ Len(messages) = 4
  /\ messages[3].role = "assistant"
  /\ ENABLED ClearChat

\* C12: every step that changes the conversation and is not a reset appends
\* exactly one message and leaves the entries before it as they were.
C12_AppendStep ==
  (messages' # messages /\ ~IsResetStep) =>
     /\ Len(messages') = Len(messages) + 1
     /\ \A i \in 1..Len(messages) : messages'[i] = messages[i]
     /\ messages'[Len(messages')].role \in {"user", "assistant"}
C12_AppendOnly == [][C12_AppendStep]_vars

C12_Witness ==
  /\ pc = "rendered"
  /\ outcome = "committed"
  /\ Len(messages) = 5
  /\ messages[3].role = "assistant"
  /\ messages[5].role = "assistant"
  /\ messages[5].content # messages[3].content


SubmitAny == \E p \in Prompts : Submit(p)

\* C13: a failure always reaches the except branch, the run then finishes,
\* and the idle session takes the next prompt (while the conversation has
\* room for one); when the stream of the turn after a failed turn completes,
\* its commit appends the assistant message with the trimmed text.
C13_CommitAfterFailure ==
  (pc = "else" /\ outcome = "failed" /\ pc' # pc) =>
     /\ pc' = "rendered"
     /\ outcome' = "committed"
     /\ Len(messages') = Len(messages) + 1
     /\ SubSeq(messages', 1, Len(messages)) = messages
     /\ Last(messages').role = "assistant"
     /\ IsTrimOf(Last(messages').content, Flatten(yielded))
C13_FailureIsNotFatal ==
  /\ [](/\ gen = "raised" => pc \in {"except", "rendered"}
        /\ pc = "except" => ENABLED Except
        /\ pc = "rendered" => ENABLED EndRun
        /\ (pc = "idle" /\ outcome = "failed" /\ NumUser(messages) < MaxTurns)
             => ENABLED SubmitAny)
  /\ [][C13_CommitAfterFailure]_vars

C13_Witness ==
  /\ pc = "else"
  /\ outcome = "failed"
  /\ yielded = << <<"a">>, <<" ">> >>
  /\ Len(messages) = 3
  /\ ENABLED Commit


----------------------------------------------------------------------------
(* Properties of the stream, continued *)

\* a line that parses as JSON and is no fragment message, no done marker and
\* no error object: a value that is no object, an object whose message is
\* null, an object with none of the members message, done, error
IsUnrecognizedLine(l) ==
  /\ l.kind = "json"
  /\ \/ l.val.t # "dict"
     \/ /\ ~l.val.hasError
        /\ l.val.done = "absent"
        /\ l.val.message \in {"absent", "null"}

\* C14: a line that parses as JSON but is unrecognized is skipped: reading
\* it yields nothing, does not end the stream and raises nothing.
C14_UnrecognizedIsSkipped ==
  /\ [](yielded = Fragments(Without(lines, IsUnrecognizedLine)))
  /\ [][SkipStep(IsUnrecognizedLine)]_vars

\* What does hold of lines 66-74: an object with none of the members is
\* skipped.
EmptyObjectIsSkipped == [][SkipStep(LAMBDA l : l = LineEmptyObj)]_vars


NumAssistant(msgs) == Cardinality({i \in 1..Len(msgs) : msgs[i].role = "assistant"})

\* the run is inside the try statement of lines 124-132
InTurn == pc \in {"next", "body", "markdown", "else", "except"}

\* C15: from the user append until the stream is drained the conversation
\* does not change and ends with the new user message; the request body
\* carries exactly that transcript; an assistant message is appended only by
\* the step that follows the generator's return, once.
C15_Step ==
  /\ messages' # messages => pc \in {"idle", "else"}
  /\ NumAssistant(messages') > NumAssistant(messages) =>
       /\ pc = "else" /\ pc' = "rendered" /\ gen = "returned"
       /\ NumAssistant(messages') = NumAssistant(messages) + 1
C15_CommitOnceAfterDrain ==
  /\ [](/\ InTurn => Last(messages).role = "user"
        /\ (InTurn /\ gen # "created") => payload = messages
        /\ gen \notin {"none", "created"} =>
             /\ Len(payload) >= 2
             /\ payload[1].role = "system"
             /\ Last(payload).role = "user"
             /\ \A i \in 1..Len(payload) : payload[i] = messages[i])
  /\ [][C15_Step]_vars

C15_Witness ==
  /\ pc = "markdown"
  /\ Len(acc) = 2
  /\ outcome = "committed"
  /\ Len(messages) = 4
  /\ payload = messages


\* a well-formed line whose content is empty and that carries no done marker
IsEmptyContentLine(l) ==
  /\ IsObjectLine(l)
  /\ ~l.val.hasError
  /\ l.val.message = "content"
  /\ l.val.content = NoText
  /\ l.val.done # "true"

\* a line that carries both non-empty content and the done marker
IsFinalFragmentLine(l) == IsDoneLine(l) /\ ContentOfLine(l) # NoText

\* C16: a line with both content and done true yields its content as the
\* last fragment and then ends the stream normally; a line with empty
\* content and no done marker yields nothing and does not end the stream.
C16_Step ==
  /\ (lines' # lines /\ Len(lines') > 0 /\ IsFinalFragmentLine(Last(lines'))) =>
       /\ yielded' = Append(yielded, ContentOfLine(Last(lines')))
       /\ chunk' = ContentOfLine(Last(lines'))
       /\ gen' = "suspended"
       /\ conn' = conn
  /\ (gen = "suspended" /\ gen' # gen /\ IsFinalFragmentLine(Last(lines))) =>
       /\ gen' \in {"returned", "closed"}
       /\ lines' = lines
       /\ failure' = NoFailure
       /\ conn' = "closed"
C16_FinalFragmentAndEmptyContent ==
  /\ []((pc = "rendered" /\ gen = "returned" /\ Len(lines) > 0
          /\ IsFinalFragmentLine(Last(lines))) =>
            /\ Len(yielded) > 0
            /\ Last(yielded) = ContentOfLine(Last(lines))
            /\ Last(acc) = ContentOfLine(Last(lines)))
  /\ [][C16_Step]_vars
  /\ [][SkipStep(IsEmptyContentLine)]_vars

C16_Witness ==
  /\ lines = <<LineMsgEmpty, LineMsgDone>>
  /\ yielded = << <<"a">> >>
  /\ gen = "returned"
  /\ pc = "rendered"
  /\ Last(messages) = AssistantMessage(<<"a">>)


GenLive  == gen \in {"created", "reading", "suspended"}
GenEnded == gen \in {"returned", "raised", "closed"}

\* C17: an iteration of stream_chat over a finite body ends (end of the
\* lines, done, a failure, or the caller giving it up); it issues one POST,
\* on its first step; the read position only moves forward, one line per
\* read; an ended generator yields nothing, reads nothing and posts nothing
\* more; and a new call starts with no request, no lines and no fragments
\* and issues a POST of its own.
C17_Step ==
  /\ lines' # lines =>
       \/ /\ gen = "reading"
          /\ Len(lines') = Len(lines) + 1
          /\ SubSeq(lines', 1, Len(lines)) = lines
       \/ gen' = "none"
  /\ yielded' # yielded =>
       \/ /\ gen = "reading" /\ gen' = "suspended"
          /\ Len(yielded') = Len(yielded) + 1
          /\ SubSeq(yielded', 1, Len(yielded)) = yielded
          /\ lines' # lines
       \/ gen' = "none"
  /\ posts' # posts =>
       \/ gen = "created" /\ posts' = posts + 1 /\ payload' = messages
       \/ gen' = "none" /\ posts' = 0
  /\ GenEnded =>
       \/ UNCHANGED <<gen, conn, lines, yielded, chunk, posts, payload, failure>>
       \/ gen' = "none"
  /\ gen' = "created" => gen = "none"
C17_FiniteNonRestartable ==
  /\ [](/\ gen \in {"none", "created"} =>
             posts = 0 /\ lines = << >> /\ yielded = << >> /\ conn = "none"
        /\ gen \in {"reading", "suspended", "returned", "raised", "closed"} =>
             posts = 1
        /\ Len(lines) <= MaxLines
        /\ GenEnded => conn # "open")
  /\ [][C17_Step]_vars
  /\ GenLive ~> GenEnded

C17_Witness ==
  /\ outcome = "committed"
  /\ gen = "reading"
  /\ posts = 1
  /\ Len(messages) = 4
  /\ Len(lines) = MaxLines
  /\ Len(yielded) = 1


----------------------------------------------------------------------------
(* Properties of the catalog, continued *)

\* the last fetch for key k failed and was neither cleared nor outlived
FailedWindow(k, t) ==
  since[k].valid /\ since[k].value = DefaultModels /\ t < since[k].at + TTL

\* C18: a failed fetch stores the default list under the call's key as a
\* successful fetch stores its list; until ttl has passed or the cache is
\* cleared every call for that key returns the default list without a
\* network call, whatever the service would answer then; after that the next
\* call fetches again.
C18_Step ==
  (call' # call /\ call'.op = "call") =>
    LET k == call'.key
        ck == CacheKey(k[1], k[2]) IN
    /\ call'.fetched =>
         /\ ~call'.raised
         /\ cache'[ck] = Entry(call'.ret, now)
         /\ call'.ret = DefaultModels <=> IsHardFailure(call'.resp)
    /\ FailedWindow(k, now) =>
         /\ ~call'.fetched
         /\ call'.ret = DefaultModels
         /\ netCalls' = netCalls
         /\ cache' = cache
    /\ (since[k].valid /\ now >= since[k].at + TTL) => call'.fetched
    /\ ~since[k].valid => call'.fetched
C18_FallbackIsCached ==
  /\ [](\A k \in Keys : FailedWindow(k, now) =>
           /\ Fresh(cache[CacheKey(k[1], k[2])], now)
           /\ cache[CacheKey(k[1], k[2])].value = DefaultModels)
  /\ [][C18_Step]_vars

C18_Witness ==
  /\ call.op = "call"
  /\ ~call.fetched
  /\ call.ret = DefaultModels
  /\ call.key = <<"cloud", "k">>
  /\ FailedWindow(call.key, now)
  /\ call.at = since[call.key].at + TTL - 1
  /\ netCalls = 1


----------------------------------------------------------------------------
(* Properties of the conversation, continued *)

\* C19: a turn appends its user message when it is submitted and a failure
\* of its stream leaves the conversation as it is, the user message last;
\* so the request of the turn that follows a failed turn ends with two user
\* messages and no assistant message between them.
C19_Step ==
  /\ (pc = "idle" /\ pc' = "next") =>
       /\ Len(messages') = Len(messages) + 1
       /\ SubSeq(messages', 1, Len(messages)) = messages
       /\ Last(messages').role = "user"
  /\ pc \in {"next", "body", "markdown", "except"} => messages' = messages
  /\ (pc = "except" /\ pc' # pc) =>
       /\ pc' = "rendered"
       /\ outcome' = "failed"
       /\ Last(messages').role = "user"
       /\ messages' = payload
C19_FailedTurnIsKept ==
  /\ []((outcome = "failed" /\ pc \in {"rendered", "idle"}) =>
           Last(messages).role = "user")
  /\ []((outcome = "failed" /\ gen \in {"reading", "suspended", "returned", "raised"}
          /\ pc # "rendered") =>
           /\ Len(payload) >= 3
           /\ payload[Len(payload) - 1].role = "user"
           /\ payload[Len(payload)].role = "user")
  /\ [][C19_Step]_vars

C19_Witness ==
  /\ outcome = "failed"
  /\ gen = "suspended"
  /\ pc = "markdown"
  /\ payload = <<SystemMessage, UserMessage(<<"q">>), UserMessage(<<"q">>)>>
  /\ messages = payload


\* every character of every part is whitespace (so also: there is no part)
OnlyWhitespace(parts) ==
  \A i \in 1..Len(parts) : \A c \in 1..Len(parts[i]) : parts[i][c] \in Whitespace

\* C20: a stream that ends without a failure is followed by the commit of
\* one assistant message, whatever was yielded: the conversation becomes the
\* transcript sent plus that message.  No yielded fragment is empty, yet the
\* message's content is empty when nothing was yielded or when the fragments
\* are whitespace only.
C20_Step ==
  (gen = "returned" /\ pc = "else" /\ pc' # pc) =>
     /\ pc' = "rendered"
     /\ messages' = Append(messages, AssistantMessage(Last(messages').content))
     /\ NumAssistant(messages') = NumAssistant(messages) + 1
C20_EveryCompletedStreamCommits ==
  /\ [](/\ \A i \in 1..Len(yielded) : yielded[i] # NoText
        /\ gen = "returned" => pc \in {"else", "rendered"}
        /\ (gen = "returned" /\ pc = "else") => ENABLED Commit
        /\ (gen = "returned" /\ pc = "rendered") =>
             /\ messages = Append(payload, AssistantMessage(Last(messages).content))
             /\ OnlyWhitespace(yielded) <=> Last(messages).content = NoText)
  /\ [][C20_Step]_vars

C20_Witness ==
  /\ lines = <<LineBlank, LineMsgSpace, LineDone>>
  /\ yielded = << <<" ">> >>
  /\ gen = "returned"
  /\ pc = "rendered"
  /\ messages = Append(payload, AssistantMessage(NoText))

====
